---- MODULE Spec2Model ----
(***************************************************************************)
(* Authorization decision pipeline of the AI agent permission and audit    *)
(* layer (routers/agent.py): the kill-switch / agent-status / permission   *)
(* checks of POST /agent/request, the fail-safe handler, the audit log,    *)
(* the escalation store and the human approve / deny resolver, together   *)
(* with the kill-switch and agent kill endpoints, the pending-approvals    *)
(* listing and the agent / permission endpoints of routers/admin.py.       *)
(*                                                                         *)
(* Every handler is a process running on its own database session; each    *)
(* session operation (a get, a select, an add followed by commit) is one   *)
(* step.  A session operation may raise: the step then takes the handler's *)
(* exception path and persists nothing.                                    *)
(***************************************************************************)
EXTENDS Naturals, Sequences, FiniteSets

(* ------------------------------------------------------------------ *)
(* Bounds of the model                                                  *)
(* ------------------------------------------------------------------ *)

\* Log rows the store may hold; a handler starts only if its rows still fit.
MaxLogs == 2

\* PendingRequest rows the store may hold.
MaxPending == 1

(* ------------------------------------------------------------------ *)
(* Values                                                               *)
(* ------------------------------------------------------------------ *)

SYSTEM_KILL_SWITCH_KEY == "system_kill_switch"

AgentIds == {"a1", "a2"}

Owners == {"o1", "o2"}

Humans == {"alice", "bob"}

\* The (agent_id, action, resource) triples requests and permissions range
\* over: the first one and its three single-field variations.
Triples ==
  { <<"a1", "read", "db">>, <<"a2", "read", "db">>,
    <<"a1", "write", "db">>, <<"a1", "read", "api">> }

\* Permission.condition: None or a free-form text.
Conditions == {"none", "time < 18:00"}

\* HumanDecisionRequest.notes: None ("none"), the empty text or a text.
NotesValues == {"none", "", "not authorized"}

\* The triples authorize is called with.
Requests == { <<"a1", "read", "db">>, <<"a2", "read", "db">> }

\* The agent ids POST /agent/kill is called with.
KillAgentIds == {"a1"}

\* The status values the admin endpoints are called with: the two values
\* of the Agent model and one that is neither.
StatusValues == {"active", "disabled", "paused"}

\* The agent ids the admin endpoints are called with.
AdminAgentIds == {"a1"}

\* The permission rows the admin endpoints create and delete.
AdminPermissions ==
  { [agent_id |-> "a1", action |-> "read", resource |-> "db",
     condition |-> "none"] }

\* Sessions (request handlers running at the same time).
Procs == {"p1", "p2"}

VARIABLES
  system_state,      \* SystemState table: key -> value
  agents,            \* Agent table: id -> [owner, status]
  permissions,       \* Permission table: set of rows
  logs,              \* Log table: rows in insertion order
  pending_requests,  \* PendingRequest table: request_id (index) -> row
  calls              \* per session: the handler it runs and its locals

vars == <<system_state, agents, permissions, logs, pending_requests, calls>>

(* ------------------------------------------------------------------ *)
(* Rows                                                                 *)
(* ------------------------------------------------------------------ *)

Permission(agent_id, action, resource, condition) ==
  [agent_id |-> agent_id, action |-> action, resource |-> resource,
   condition |-> condition]

Log(agent_id, action, resource, result) ==
  [agent_id |-> agent_id, action |-> action, resource |-> resource,
   result |-> result]

TraceEntry(rule_checked, rule_result, notes) ==
  [rule_checked |-> rule_checked, rule_result |-> rule_result, notes |-> notes]

\* json.dumps of a decision trace: the text lists, per entry, the three
\* values in key order.
json_dumps(trace) ==
  [i \in 1..Len(trace) |->
     <<trace[i].rule_checked, trace[i].rule_result, trace[i].notes>>]

\* json.loads of such a text.
json_loads(text) ==
  [i \in 1..Len(text) |-> TraceEntry(text[i][1], text[i][2], text[i][3])]

PendingRequest(agent_id, action, resource, reason, trace) ==
  [agent_id |-> agent_id, action |-> action, resource |-> resource,
   reason |-> reason, decision_trace |-> json_dumps(trace),
   action_required |-> "human_intervention", status |-> "pending"]

\* A table with the row of this key added or replaced.
upsert(table, key, value) ==
  [k \in DOMAIN table \cup {key} |-> IF k = key THEN value ELSE table[k]]

(* ------------------------------------------------------------------ *)
(* A session's handler state                                            *)
(* ------------------------------------------------------------------ *)

IdleCall ==
  [op |-> "idle", pc |-> "idle",
   agent_id |-> "none", action |-> "none", resource |-> "none",
   request_id |-> 0, human_id |-> "none", notes |-> "none",
   owner |-> "none", enabled |-> FALSE,
   kill_switch_read |-> "none", agent_read |-> "none",
   permission_read |-> "none", pending_read |-> "none",
   fault_at |-> "none", swallowed |-> {}, decision_trace |-> <<>>,
   logged |-> <<>>, created |-> <<>>, listing |-> <<>>,
   outcome |-> "none", result |-> "none", reason |-> "none",
   action_required |-> "none"]

\* No handler is between its first and its last step.
Quiescent == \A p \in Procs : calls[p].pc = "idle"

\* Rows the handlers in flight have room reserved for: one Log row each,
\* and one PendingRequest for an authorize call (the second Log row an
\* authorize call may write in its except branch takes room that is free).
LogsToCome(c) ==
  IF c.pc = "done" THEN 0
  ELSE IF c.op = "request" THEN (IF c.logged = <<>> THEN 1 ELSE 0)
  ELSE IF c.op \in {"set_kill_switch", "kill"} THEN 1
  ELSE 0

PendingToCome(c) ==
  IF c.op = "request" /\ c.pc # "done" THEN 1 - Len(c.created) ELSE 0

RECURSIVE SumOver(_, _)
SumOver(f, S) ==
  IF S = {} THEN 0
  ELSE LET x == CHOOSE y \in S : TRUE IN f[x] + SumOver(f, S \ {x})

\* A handler that adds rows starts only when its rows still fit the bounds
\* (a resolution needs no room: a PendingRequest is resolved once per
\* session that read it pending).
RoomFor(nlogs, npending) ==
  /\ Len(logs) + SumOver([p \in Procs |-> LogsToCome(calls[p])], Procs) + nlogs
       <= MaxLogs
  /\ Len(pending_requests)
       + SumOver([p \in Procs |-> PendingToCome(calls[p])], Procs) + npending
       <= MaxPending

(* ------------------------------------------------------------------ *)
(* Helpers of routers/agent.py                                          *)
(* ------------------------------------------------------------------ *)

\* Mutant: a missing row counts as an engaged kill switch.
check_system_kill_switch_absent_on(row) == row # "disabled"

\* check_system_kill_switch on a fetched row ("absent" when there is none).
check_system_kill_switch(row) ==
  IF row = "absent" THEN FALSE ELSE row = "enabled"

\* The SystemState row of the kill switch as session.get returns it.
KillSwitchRow ==
  IF SYSTEM_KILL_SWITCH_KEY \in DOMAIN system_state
  THEN system_state[SYSTEM_KILL_SWITCH_KEY] ELSE "absent"

\* check_permission: some row matches agent_id, action and resource.
check_permission(agent_id, action, resource) ==
  \E perm \in permissions :
     /\ perm.agent_id = agent_id
     /\ perm.action = action
     /\ perm.resource = resource

(* ------------------------------------------------------------------ *)
(* Responses                                                            *)
(* ------------------------------------------------------------------ *)

\* AgentRequestResponse / HumanDecisionResponse returned by handler c; the
\* decision_trace of the response is the handler's trace.
Respond(c, result, reason, action_required) ==
  [c EXCEPT !.pc = "done", !.outcome = "decision", !.result = result,
            !.reason = reason, !.action_required = action_required]

\* An exception leaving the handler: HTTPException(404) as "http_404", any
\* other exception as "fault" (an unhandled server error).
Raise(c, what) == [c EXCEPT !.pc = "done", !.outcome = what]

\* Mutant: the entry is put in front of the trace.
Append1_front(c, entry) ==
  [c EXCEPT !.decision_trace = <<entry>> \o c.decision_trace]

Append1(c, entry) ==
  [c EXCEPT !.decision_trace = Append(c.decision_trace, entry)]

\* Mutant: the exception is raised again instead of handled.
ExceptException_reraise(c, at) == Raise([c EXCEPT !.fault_at = at], "fault")

\* except Exception: the handler appends the system_error entry and goes on
\* to its two best-effort writes.
ExceptException(c, at) ==
  [Append1(c, TraceEntry("system_error", "failed", <<"system error occurred">>))
     EXCEPT !.pc = "except_log", !.fault_at = at]

\* The response of the except branch.
SystemErrorResponse(c) ==
  Respond(c, "denied", "system_error", "human_intervention")

\* The response of the kill-switch branch.
KillSwitchResponse(c) ==
  Respond(c, "denied", "system_kill_switch_enabled", "human_intervention")

\* The response for a disabled agent.
AgentDisabledResponse(c) ==
  Respond(c, "denied", "agent_disabled", "none")

\* The response when every check passed.
ApprovedResponse(c) ==
  Respond(c, "approved", "all_checks_passed", "none")

\* The response when no permission matches.
PermissionDeniedResponse(c) ==
  Respond(c, "denied", "permission_rule_failed", "none")

(* ------------------------------------------------------------------ *)
(* Store writes                                                         *)
(* ------------------------------------------------------------------ *)

\* log_action: one Log row added and committed by handler c.
log_action(p, c, result) ==
  LET row == Log(c.agent_id, c.action, c.resource, result) IN
  /\ logs' = Append(logs, row)
  /\ calls' = [calls EXCEPT ![p] = [c EXCEPT !.logged = Append(c.logged, row)]]

\* session.add(PendingRequest(...)); session.commit() under a fresh uuid4.
add_pending_request(p, c, reason) ==
  LET request_id == Len(pending_requests) + 1 IN
  /\ pending_requests' =
       Append(pending_requests,
              PendingRequest(c.agent_id, c.action, c.resource, reason,
                             c.decision_trace))
  /\ calls' = [calls EXCEPT ![p] =
                 [c EXCEPT !.created = Append(c.created, request_id)]]

(* ------------------------------------------------------------------ *)
(* POST /agent/request                                                  *)
(* ------------------------------------------------------------------ *)

\* The request arrives on session p.
agent_request_start(p, agent_id, action, resource) ==
  /\ calls[p].pc = "idle"
  /\ RoomFor(1, 1)
  /\ calls' = [calls EXCEPT ![p] =
       [IdleCall EXCEPT !.op = "request", !.pc = "kill_switch",
                        !.agent_id = agent_id, !.action = action,
                        !.resource = resource]]
  /\ UNCHANGED <<system_state, agents, permissions, logs, pending_requests>>

\* Step 0: the kill-switch read and the branch on it.
agent_request_kill_switch(p) ==
  LET c == calls[p] IN
  /\ c.op = "request" /\ c.pc = "kill_switch"
  /\ \E fault \in BOOLEAN :
       calls' = [calls EXCEPT ![p] =
         IF fault THEN ExceptException(c, "kill_switch")
         ELSE LET c1 == [c EXCEPT !.kill_switch_read = KillSwitchRow] IN
              IF check_system_kill_switch(KillSwitchRow)
              THEN [Append1(c1, TraceEntry("kill_switch", "failed",
                      <<"kill switch enabled - all requests blocked">>))
                     EXCEPT !.pc = "kill_switch_log"]
              ELSE [Append1(c1, TraceEntry("kill_switch", "passed",
                      <<"kill switch off">>))
                     EXCEPT !.pc = "agent"]]
  /\ UNCHANGED <<system_state, agents, permissions, logs, pending_requests>>

\* Kill switch on: the denied Log row.
agent_request_kill_switch_log(p) ==
  LET c == calls[p] IN
  /\ c.op = "request" /\ c.pc = "kill_switch_log"
  /\ \/ /\ log_action(p, [c EXCEPT !.pc = "kill_switch_pending"], "denied")
        /\ UNCHANGED pending_requests
     \/ /\ calls' = [calls EXCEPT ![p] = ExceptException(c, "kill_switch_log")]
        /\ UNCHANGED <<logs, pending_requests>>
  /\ UNCHANGED <<system_state, agents, permissions>>

\* Kill switch on: the PendingRequest and the response.
agent_request_kill_switch_pending(p) ==
  LET c == calls[p] IN
  /\ c.op = "request" /\ c.pc = "kill_switch_pending"
  /\ \/ add_pending_request(p, KillSwitchResponse(c),
                            "system_kill_switch_enabled")
     \/ /\ calls' = [calls EXCEPT ![p] =
                       ExceptException(c, "kill_switch_pending")]
        /\ UNCHANGED pending_requests
  /\ UNCHANGED <<system_state, agents, permissions, logs>>

\* Mutant: an unknown agent is answered with a denial.
AgentNotFound_denied(c) ==
  Respond([c EXCEPT !.agent_read = "absent"], "denied", "agent_not_found", "none")

\* if agent.status == "disabled"
agent_disabled(status) == status = "disabled"

\* if not agent: the failed trace entry and HTTPException(404).
AgentNotFound(c) ==
  Raise(Append1([c EXCEPT !.agent_read = "absent"],
          TraceEntry("agent_status", "failed",
                     <<"agent ", c.agent_id, " not found">>)),
        "http_404")

\* Step 1: the agent read and the branch on its status.
agent_request_agent(p) ==
  LET c == calls[p] IN
  /\ c.op = "request" /\ c.pc = "agent"
  /\ \E fault \in BOOLEAN :
       calls' = [calls EXCEPT ![p] =
         IF fault THEN ExceptException(c, "agent")
         ELSE IF c.agent_id \notin DOMAIN agents
         THEN AgentNotFound(c)
         ELSE LET c1 == [c EXCEPT !.agent_read = agents[c.agent_id].status] IN
              IF agent_disabled(agents[c.agent_id].status)
              THEN [Append1(c1, TraceEntry("agent_status", "failed",
                      <<"agent ", c.agent_id, " is disabled">>))
                     EXCEPT !.pc = "disabled_log"]
              ELSE [Append1(c1, TraceEntry("agent_status", "passed",
                      <<"agent active">>))
                     EXCEPT !.pc = "permission"]]
  /\ UNCHANGED <<system_state, agents, permissions, logs, pending_requests>>

\* Agent disabled: the denied Log row and the response.
agent_request_disabled_log(p) ==
  LET c == calls[p] IN
  /\ c.op = "request" /\ c.pc = "disabled_log"
  /\ \/ log_action(p, AgentDisabledResponse(c), "denied")
     \/ /\ calls' = [calls EXCEPT ![p] = ExceptException(c, "disabled_log")]
        /\ UNCHANGED logs
  /\ UNCHANGED <<system_state, agents, permissions, pending_requests>>

\* Step 2: the permission read and the branch on it.
agent_request_permission(p) ==
  LET c == calls[p] IN
  /\ c.op = "request" /\ c.pc = "permission"
  /\ \E fault \in BOOLEAN :
       calls' = [calls EXCEPT ![p] =
         IF fault THEN ExceptException(c, "permission")
         ELSE IF check_permission(c.agent_id, c.action, c.resource)
         THEN [Append1([c EXCEPT !.permission_read = "yes"],
                 TraceEntry("permission_rule", "passed",
                   <<"permission granted for ", c.action, " on ", c.resource>>))
                EXCEPT !.pc = "approved_log"]
         ELSE [Append1([c EXCEPT !.permission_read = "no"],
                 TraceEntry("permission_rule", "failed",
                   <<"no permission for ", c.action, " on ", c.resource>>))
                EXCEPT !.pc = "denied_log"]]
  /\ UNCHANGED <<system_state, agents, permissions, logs, pending_requests>>

\* Mutant: the kill switch is looked at again before the approval is logged.
agent_request_approved_log_rechecks(p) ==
  LET c == calls[p] IN
  /\ c.op = "request" /\ c.pc = "approved_log"
  /\ \/ log_action(p, IF check_system_kill_switch(KillSwitchRow)
                      THEN KillSwitchResponse(c) ELSE ApprovedResponse(c),
                   IF check_system_kill_switch(KillSwitchRow)
                      THEN "denied" ELSE "approved")
     \/ /\ calls' = [calls EXCEPT ![p] = ExceptException(c, "approved_log")]
        /\ UNCHANGED logs
  /\ UNCHANGED <<system_state, agents, permissions, pending_requests>>

\* Permission found: the approved Log row and the response.
agent_request_approved_log(p) ==
  LET c == calls[p] IN
  /\ c.op = "request" /\ c.pc = "approved_log"
  /\ \/ log_action(p, ApprovedResponse(c), "approved")
     \/ /\ calls' = [calls EXCEPT ![p] = ExceptException(c, "approved_log")]
        /\ UNCHANGED logs
  /\ UNCHANGED <<system_state, agents, permissions, pending_requests>>

\* Mutant: a policy denial is escalated as well.
agent_request_denied_log_escalates(p) ==
  LET c == calls[p]
      row == Log(c.agent_id, c.action, c.resource, "denied")
  IN /\ c.op = "request" /\ c.pc = "denied_log"
     /\ logs' = Append(logs, row)
     /\ add_pending_request(p,
          [PermissionDeniedResponse(c) EXCEPT !.logged = Append(c.logged, row)],
          "permission_rule_failed")
     /\ UNCHANGED <<system_state, agents, permissions>>

\* No permission: the denied Log row and the response.
agent_request_denied_log(p) ==
  LET c == calls[p] IN
  /\ c.op = "request" /\ c.pc = "denied_log"
  /\ \/ log_action(p, PermissionDeniedResponse(c), "denied")
     \/ /\ calls' = [calls EXCEPT ![p] = ExceptException(c, "denied_log")]
        /\ UNCHANGED logs
  /\ UNCHANGED <<system_state, agents, permissions, pending_requests>>

\* except Exception: the best-effort denied Log row (its failure is passed).
agent_request_except_log(p) ==
  LET c == calls[p] IN
  /\ c.op = "request" /\ c.pc = "except_log"
  /\ \/ /\ c.logged = <<>> \/ RoomFor(1, 0)
        /\ log_action(p, [c EXCEPT !.pc = "except_pending"], "denied")
     \/ /\ calls' = [calls EXCEPT ![p] =
             [c EXCEPT !.pc = "except_pending", !.swallowed = @ \cup {"log"}]]
        /\ UNCHANGED logs
  /\ UNCHANGED <<system_state, agents, permissions, pending_requests>>

\* Mutant: the except branch records no PendingRequest.
agent_request_except_pending_skipped(p) ==
  LET c == calls[p] IN
  /\ c.op = "request" /\ c.pc = "except_pending"
  /\ calls' = [calls EXCEPT ![p] = SystemErrorResponse(c)]
  /\ UNCHANGED <<system_state, agents, permissions, logs, pending_requests>>

\* except Exception: the best-effort PendingRequest (its failure is passed)
\* and the response.
agent_request_except_pending(p) ==
  LET c == calls[p] IN
  /\ c.op = "request" /\ c.pc = "except_pending"
  /\ \/ add_pending_request(p, SystemErrorResponse(c), "system_error")
     \/ /\ calls' = [calls EXCEPT ![p] =
             SystemErrorResponse([c EXCEPT !.swallowed = @ \cup {"pending"}])]
        /\ UNCHANGED pending_requests
  /\ UNCHANGED <<system_state, agents, permissions, logs>>

\* The response (or the error) leaves the handler; the session is closed.
handler_return(p) ==
  /\ calls[p].pc = "done"
  /\ calls' = [calls EXCEPT ![p] = IdleCall]
  /\ UNCHANGED <<system_state, agents, permissions, logs, pending_requests>>

agent_request(p) ==
  \/ \E t \in Requests : agent_request_start(p, t[1], t[2], t[3])
  \/ agent_request_kill_switch(p)
  \/ agent_request_kill_switch_log(p)
  \/ agent_request_kill_switch_pending(p)
  \/ agent_request_agent(p)
  \/ agent_request_disabled_log(p)
  \/ agent_request_permission(p)
  \/ agent_request_approved_log(p)
  \/ agent_request_denied_log(p)
  \/ agent_request_except_log(p)
  \/ agent_request_except_pending(p)


(* ------------------------------------------------------------------ *)
(* POST /agent/approve and POST /agent/deny                             *)
(* ------------------------------------------------------------------ *)

\* Mutant: the notes of the request are left out.
human_decision_notes_dropped(op, human_id, notes) ==
  IF op = "approve" THEN <<"approved by human ", human_id>>
  ELSE <<"denied by human ", human_id>>

\* The notes of the human_decision entry; "if request.notes" is false for
\* None and for the empty text.
human_decision_notes(op, human_id, notes) ==
  IF op = "approve" THEN <<"approved by human ", human_id>>
  ELSE IF notes \notin {"none", ""}
  THEN <<"denied by human ", human_id, " (", notes, ")">>
  ELSE <<"denied by human ", human_id>>

\* The decision arrives on session p.
human_decision_start(p, op, request_id, human_id, notes) ==
  /\ calls[p].pc = "idle"
  /\ calls' = [calls EXCEPT ![p] =
       [IdleCall EXCEPT !.op = op, !.pc = "get", !.request_id = request_id,
                        !.human_id = human_id, !.notes = notes]]
  /\ UNCHANGED <<system_state, agents, permissions, logs, pending_requests>>

\* The response for a request id that is absent or no longer pending.
NotPendingResponse(c) ==
  Respond([c EXCEPT !.decision_trace =
             <<TraceEntry("human_decision", "failed",
                 <<"request_id ", c.request_id,
                   " not found or already resolved">>)>>],
          "denied", "system_error", "none")

\* The row as read is pending: the stored trace is parsed and the human
\* decision appended; the write is the next step.
ResolveRead(c, row) ==
  [c EXCEPT !.pending_read = row.status,
            !.agent_id = row.agent_id, !.action = row.action,
            !.resource = row.resource,
            !.decision_trace =
               Append(json_loads(row.decision_trace),
                      TraceEntry("human_decision",
                                 IF c.op = "approve" THEN "passed" ELSE "failed",
                                 human_decision_notes(c.op, c.human_id, c.notes))),
            !.pc = "commit"]

\* Mutant: only a missing row is refused.
not_pending_absent_only(request_id) ==
  request_id \notin DOMAIN pending_requests

\* if not pending_request or pending_request.status != "pending"
not_pending(request_id) ==
  \/ request_id \notin DOMAIN pending_requests
  \/ pending_requests[request_id].status # "pending"

\* Mutant: a resolution is refused while the kill switch is enabled.
human_decision_get_kill_switch(p) ==
  LET c == calls[p] IN
  /\ c.op \in {"approve", "deny"} /\ c.pc = "get"
  /\ \E fault \in BOOLEAN :
       calls' = [calls EXCEPT ![p] =
         IF fault THEN Raise([c EXCEPT !.fault_at = "get"], "fault")
         ELSE IF not_pending(c.request_id)
                   \/ check_system_kill_switch(KillSwitchRow)
         THEN NotPendingResponse(
                [c EXCEPT !.pending_read =
                   IF c.request_id \in DOMAIN pending_requests
                   THEN pending_requests[c.request_id].status ELSE "absent"])
         ELSE ResolveRead(c, pending_requests[c.request_id])]
  /\ UNCHANGED <<system_state, agents, permissions, logs, pending_requests>>

\* session.get(PendingRequest, request_id) and the branch on it.
human_decision_get(p) ==
  LET c == calls[p] IN
  /\ c.op \in {"approve", "deny"} /\ c.pc = "get"
  /\ \E fault \in BOOLEAN :
       calls' = [calls EXCEPT ![p] =
         IF fault THEN Raise([c EXCEPT !.fault_at = "get"], "fault")
         ELSE IF not_pending(c.request_id)
         THEN NotPendingResponse(
                [c EXCEPT !.pending_read =
                   IF c.request_id \in DOMAIN pending_requests
                   THEN pending_requests[c.request_id].status ELSE "absent"])
         ELSE ResolveRead(c, pending_requests[c.request_id])]
  /\ UNCHANGED <<system_state, agents, permissions, logs, pending_requests>>

\* The response of a resolution.
HumanOverrideResponse(c) ==
  Respond(c, IF c.op = "approve" THEN "approved" ELSE "denied",
          "human_override", "none")

\* Mutant: the status change is committed on its own before the Log row.
human_decision_commit_two_commits(p) ==
  LET c == calls[p] IN
  /\ c.op \in {"approve", "deny"} /\ c.pc = "commit"
  /\ pending_requests' =
       [pending_requests EXCEPT ![c.request_id].status = "resolved"]
  /\ \/ log_action(p, HumanOverrideResponse(c),
                    IF c.op = "approve" THEN "approved" ELSE "denied")
     \/ /\ calls' = [calls EXCEPT ![p] =
                       Raise([c EXCEPT !.fault_at = "commit"], "fault")]
        /\ UNCHANGED logs
  /\ UNCHANGED <<system_state, agents, permissions>>

\* Mutant: the trace with the human_decision entry is written back to the row.
human_decision_commit_stores_trace(p) ==
  LET c == calls[p] IN
  /\ c.op \in {"approve", "deny"} /\ c.pc = "commit"
  /\ \/ /\ pending_requests' =
             [pending_requests EXCEPT
                ![c.request_id].status = "resolved",
                ![c.request_id].decision_trace = json_dumps(c.decision_trace)]
        /\ log_action(p, HumanOverrideResponse(c),
                      IF c.op = "approve" THEN "approved" ELSE "denied")
     \/ /\ calls' = [calls EXCEPT ![p] =
                       Raise([c EXCEPT !.fault_at = "commit"], "fault")]
        /\ UNCHANGED <<logs, pending_requests>>
  /\ UNCHANGED <<system_state, agents, permissions>>

\* status = "resolved" and the Log row, committed together by log_action.
human_decision_commit(p) ==
  LET c == calls[p] IN
  /\ c.op \in {"approve", "deny"} /\ c.pc = "commit"
  /\ \/ /\ pending_requests' =
             [pending_requests EXCEPT ![c.request_id].status = "resolved"]
        /\ log_action(p, HumanOverrideResponse(c),
                      IF c.op = "approve" THEN "approved" ELSE "denied")
     \/ /\ calls' = [calls EXCEPT ![p] =
                       Raise([c EXCEPT !.fault_at = "commit"], "fault")]
        /\ UNCHANGED <<logs, pending_requests>>
  /\ UNCHANGED <<system_state, agents, permissions>>

human_approve(p) ==
  \/ \E request_id \in 1..MaxPending, human_id \in Humans :
       human_decision_start(p, "approve", request_id, human_id, "none")
  \/ (calls[p].op = "approve" /\ human_decision_get(p))
  \/ (calls[p].op = "approve" /\ human_decision_commit(p))

human_deny(p) ==
  \/ \E request_id \in 1..MaxPending, human_id \in Humans,
        notes \in NotesValues :
       human_decision_start(p, "deny", request_id, human_id, notes)
  \/ (calls[p].op = "deny" /\ human_decision_get(p))
  \/ (calls[p].op = "deny" /\ human_decision_commit(p))

(* ------------------------------------------------------------------ *)
(* POST /agent/system-kill-switch and POST /agent/kill                  *)
(* ------------------------------------------------------------------ *)

EnabledText(enabled) == IF enabled THEN "enabled" ELSE "disabled"

\* The request arrives on session p.
set_system_kill_switch_start(p, enabled) ==
  /\ calls[p].pc = "idle"
  /\ RoomFor(1, 0)
  /\ calls' = [calls EXCEPT ![p] =
       [IdleCall EXCEPT !.op = "set_kill_switch", !.pc = "get",
                        !.agent_id = "system", !.action = "system_kill_switch",
                        !.resource = "system", !.enabled = enabled]]
  /\ UNCHANGED <<system_state, agents, permissions, logs, pending_requests>>

\* session.get(SystemState, SYSTEM_KILL_SWITCH_KEY); the handler catches
\* nothing, so an exception leaves it.
set_system_kill_switch_get(p) ==
  LET c == calls[p] IN
  /\ c.op = "set_kill_switch" /\ c.pc = "get"
  /\ \E fault \in BOOLEAN :
       calls' = [calls EXCEPT ![p] =
         IF fault THEN Raise([c EXCEPT !.fault_at = "get"], "fault")
         ELSE [c EXCEPT !.kill_switch_read = KillSwitchRow, !.pc = "commit"]]
  /\ UNCHANGED <<system_state, agents, permissions, logs, pending_requests>>

\* session.add(kill_switch); session.commit(): an INSERT when the handler
\* found no row (the primary key rejects a second row), an UPDATE of the
\* row it found otherwise.
set_system_kill_switch_commit(p) ==
  LET c == calls[p] IN
  /\ c.op = "set_kill_switch" /\ c.pc = "commit"
  /\ \/ /\ c.kill_switch_read = "absent"
        /\ SYSTEM_KILL_SWITCH_KEY \in DOMAIN system_state
        /\ calls' = [calls EXCEPT ![p] =
                       Raise([c EXCEPT !.fault_at = "primary_key"], "fault")]
        /\ UNCHANGED system_state
     \/ /\ c.kill_switch_read = "absent" =>
             SYSTEM_KILL_SWITCH_KEY \notin DOMAIN system_state
        /\ system_state' = upsert(system_state, SYSTEM_KILL_SWITCH_KEY,
                                  EnabledText(c.enabled))
        /\ calls' = [calls EXCEPT ![p] = [c EXCEPT !.pc = "log"]]
     \/ /\ calls' = [calls EXCEPT ![p] =
                       Raise([c EXCEPT !.fault_at = "commit"], "fault")]
        /\ UNCHANGED system_state
  /\ UNCHANGED <<agents, permissions, logs, pending_requests>>

\* The Log row of the change and the response.
set_system_kill_switch_log(p) ==
  LET c == calls[p] IN
  /\ c.op = "set_kill_switch" /\ c.pc = "log"
  /\ \/ log_action(p, Respond(c, EnabledText(c.enabled), "none", "none"),
                   EnabledText(c.enabled))
     \/ /\ calls' = [calls EXCEPT ![p] =
                       Raise([c EXCEPT !.fault_at = "log"], "fault")]
        /\ UNCHANGED logs
  /\ UNCHANGED <<system_state, agents, permissions, pending_requests>>

set_system_kill_switch(p) ==
  \/ \E enabled \in BOOLEAN : set_system_kill_switch_start(p, enabled)
  \/ set_system_kill_switch_get(p)
  \/ set_system_kill_switch_commit(p)
  \/ set_system_kill_switch_log(p)

\* GET /agent/system-kill-switch: the row's value, "disabled" without a row.
get_system_kill_switch(p) ==
  /\ calls[p].pc = "idle"
  /\ calls' = [calls EXCEPT ![p] =
       Respond([IdleCall EXCEPT !.op = "get_kill_switch",
                                !.kill_switch_read = KillSwitchRow],
               IF KillSwitchRow = "absent" THEN "disabled" ELSE KillSwitchRow,
               "none", "none")]
  /\ UNCHANGED <<system_state, agents, permissions, logs, pending_requests>>

\* The request arrives on session p.
agent_kill_start(p, agent_id, owner, enabled) ==
  /\ calls[p].pc = "idle"
  /\ RoomFor(1, 0)
  /\ calls' = [calls EXCEPT ![p] =
       [IdleCall EXCEPT !.op = "kill", !.pc = "get", !.agent_id = agent_id,
                        !.action = "kill", !.resource = "agent",
                        !.owner = owner, !.enabled = enabled]]
  /\ UNCHANGED <<system_state, agents, permissions, logs, pending_requests>>

\* session.get(Agent, agent_id) and the owner check.
agent_kill_get(p) ==
  LET c == calls[p] IN
  /\ c.op = "kill" /\ c.pc = "get"
  /\ \E fault \in BOOLEAN :
       calls' = [calls EXCEPT ![p] =
         IF fault THEN Raise([c EXCEPT !.fault_at = "get"], "fault")
         ELSE IF c.agent_id \notin DOMAIN agents
         THEN Raise([c EXCEPT !.agent_read = "absent"], "http_404")
         ELSE IF agents[c.agent_id].owner # c.owner
         THEN Raise([c EXCEPT !.agent_read = agents[c.agent_id].status],
                    "http_403")
         ELSE [c EXCEPT !.agent_read = agents[c.agent_id].status,
                        !.pc = "commit"]]
  /\ UNCHANGED <<system_state, agents, permissions, logs, pending_requests>>

\* agent.status = ...; session.add(agent); session.commit(): an UPDATE of
\* the row read, which fails when the row is gone.
agent_kill_commit(p) ==
  LET c == calls[p] IN
  /\ c.op = "kill" /\ c.pc = "commit"
  /\ \/ /\ c.agent_id \in DOMAIN agents
        /\ agents' = [agents EXCEPT ![c.agent_id].status =
                        IF c.enabled THEN "active" ELSE "disabled"]
        /\ calls' = [calls EXCEPT ![p] = [c EXCEPT !.pc = "log"]]
     \/ /\ calls' = [calls EXCEPT ![p] =
                       Raise([c EXCEPT !.fault_at = "commit"], "fault")]
        /\ UNCHANGED agents
  /\ UNCHANGED <<system_state, permissions, logs, pending_requests>>

\* The Log row of the change (action "kill", resource "agent") and the
\* response.
agent_kill_log(p) ==
  LET c == calls[p] IN
  /\ c.op = "kill" /\ c.pc = "log"
  /\ \/ log_action(p, Respond(c, EnabledText(c.enabled), "none", "none"),
                   EnabledText(c.enabled))
     \/ /\ calls' = [calls EXCEPT ![p] =
                       Raise([c EXCEPT !.fault_at = "log"], "fault")]
        /\ UNCHANGED logs
  /\ UNCHANGED <<system_state, agents, permissions, pending_requests>>

agent_kill(p) ==
  \/ \E agent_id \in KillAgentIds, owner \in Owners, enabled \in BOOLEAN :
       agent_kill_start(p, agent_id, owner, enabled)
  \/ agent_kill_get(p)
  \/ agent_kill_commit(p)
  \/ agent_kill_log(p)

(* ------------------------------------------------------------------ *)
(* GET /agent/pending-approvals                                         *)
(* ------------------------------------------------------------------ *)

\* The ids selected by status = "pending" and action_required =
\* "human_intervention", in table order.
RECURSIVE SelectPending(_)
SelectPending(n) ==
  IF n = 0 THEN <<>>
  ELSE IF /\ pending_requests[n].status = "pending"
          /\ pending_requests[n].action_required = "human_intervention"
       THEN Append(SelectPending(n - 1), n)
       ELSE SelectPending(n - 1)

\* Mutant: the select has no WHERE clause.
get_pending_approvals_all(p) ==
  /\ calls[p].pc = "idle"
  /\ calls' = [calls EXCEPT ![p] =
       [IdleCall EXCEPT !.op = "pending_approvals", !.pc = "done",
                        !.outcome = "list",
                        !.listing = [i \in 1..Len(pending_requests) |-> i]]]
  /\ UNCHANGED <<system_state, agents, permissions, logs, pending_requests>>

get_pending_approvals(p) ==
  /\ calls[p].pc = "idle"
  /\ calls' = [calls EXCEPT ![p] =
       [IdleCall EXCEPT !.op = "pending_approvals", !.pc = "done",
                        !.outcome = "list",
                        !.listing = SelectPending(Len(pending_requests))]]
  /\ UNCHANGED <<system_state, agents, permissions, logs, pending_requests>>

(* ------------------------------------------------------------------ *)
(* routers/admin.py                                                     *)
(* ------------------------------------------------------------------ *)

\* Agent.validate_status
validate_status(v) == v \in {"active", "disabled"}

\* POST /admin/agents: the row is built, added and committed; any exception
\* (the validator's ValueError, the primary key's IntegrityError) becomes
\* HTTP 400.  Whether the table model runs validate_status when it is
\* constructed is the ORM's choice: both outcomes are modelled.
create_agent(p, agent_id, owner, status) ==
  LET c == [IdleCall EXCEPT !.op = "create_agent", !.agent_id = agent_id,
                            !.owner = owner, !.notes = status] IN
  /\ calls[p].pc = "idle"
  /\ \E validated \in BOOLEAN :
       IF (validated /\ ~validate_status(status)) \/ agent_id \in DOMAIN agents
       THEN /\ calls' = [calls EXCEPT ![p] = Raise(c, "http_400")]
            /\ UNCHANGED agents
       ELSE /\ agents' = upsert(agents, agent_id,
                                [owner |-> owner, status |-> status])
            /\ calls' = [calls EXCEPT ![p] =
                 [c EXCEPT !.pc = "done", !.outcome = "agent",
                           !.result = status]]
  /\ UNCHANGED <<system_state, permissions, logs, pending_requests>>

\* PUT /admin/agents/{agent_id}: the fields present in the body ("none"
\* stands for a field left out) are assigned to the row and committed.
update_agent(p, agent_id, owner, status) ==
  LET c == [IdleCall EXCEPT !.op = "update_agent", !.agent_id = agent_id,
                            !.owner = owner, !.notes = status] IN
  /\ calls[p].pc = "idle"
  /\ IF agent_id \notin DOMAIN agents
     THEN /\ calls' = [calls EXCEPT ![p] =
                         Raise([c EXCEPT !.agent_read = "absent"], "http_404")]
          /\ UNCHANGED agents
     ELSE LET agent == agents[agent_id]
              updated ==
                [owner  |-> IF owner # "none" THEN owner ELSE agent.owner,
                 status |-> IF status # "none" THEN status ELSE agent.status]
          IN /\ agents' = [agents EXCEPT ![agent_id] = updated]
             /\ calls' = [calls EXCEPT ![p] =
                  [c EXCEPT !.pc = "done", !.outcome = "agent",
                            !.agent_read = agent.status,
                            !.result = updated.status]]
  /\ UNCHANGED <<system_state, permissions, logs, pending_requests>>

\* Mutant: the agent's Log rows are deleted with it.
delete_agent_and_logs(p, agent_id) ==
  LET c == [IdleCall EXCEPT !.op = "delete_agent", !.agent_id = agent_id]
      kept(row) == row.agent_id # agent_id
  IN
  /\ calls[p].pc = "idle"
  /\ IF agent_id \notin DOMAIN agents
     THEN /\ calls' = [calls EXCEPT ![p] =
                         Raise([c EXCEPT !.agent_read = "absent"], "http_404")]
          /\ UNCHANGED <<agents, permissions, logs>>
     ELSE /\ permissions' = {perm \in permissions : perm.agent_id # agent_id}
          /\ agents' = [a \in DOMAIN agents \ {agent_id} |-> agents[a]]
          /\ logs' = SelectSeq(logs, kept)
          /\ calls' = [calls EXCEPT ![p] =
               [c EXCEPT !.pc = "done", !.outcome = "deleted",
                         !.agent_read = agents[agent_id].status]]
  /\ UNCHANGED <<system_state, pending_requests>>

\* DELETE /admin/agents/{agent_id}: the agent's permissions and the agent
\* are deleted; the handler touches no other table.
delete_agent(p, agent_id) ==
  LET c == [IdleCall EXCEPT !.op = "delete_agent", !.agent_id = agent_id] IN
  /\ calls[p].pc = "idle"
  /\ IF agent_id \notin DOMAIN agents
     THEN /\ calls' = [calls EXCEPT ![p] =
                         Raise([c EXCEPT !.agent_read = "absent"], "http_404")]
          /\ UNCHANGED <<agents, permissions>>
     ELSE /\ permissions' = {perm \in permissions : perm.agent_id # agent_id}
          /\ agents' = [a \in DOMAIN agents \ {agent_id} |-> agents[a]]
          /\ calls' = [calls EXCEPT ![p] =
               [c EXCEPT !.pc = "done", !.outcome = "deleted",
                         !.agent_read = agents[agent_id].status]]
  /\ UNCHANGED <<system_state, logs, pending_requests>>

\* POST /admin/permissions: the row is added under a fresh id (the model
\* adds no second copy of a stored row).
create_permission(p, perm) ==
  /\ calls[p].pc = "idle"
  /\ perm \notin permissions
  /\ permissions' = permissions \cup {perm}
  /\ calls' = [calls EXCEPT ![p] =
       [IdleCall EXCEPT !.op = "create_permission", !.pc = "done",
                        !.outcome = "permission",
                        !.agent_id = perm.agent_id, !.action = perm.action,
                        !.resource = perm.resource]]
  /\ UNCHANGED <<system_state, agents, logs, pending_requests>>

\* DELETE /admin/permissions/{permission_id}
delete_permission(p, perm) ==
  LET c == [IdleCall EXCEPT !.op = "delete_permission",
                            !.agent_id = perm.agent_id, !.action = perm.action,
                            !.resource = perm.resource] IN
  /\ calls[p].pc = "idle"
  /\ IF perm \notin permissions
     THEN /\ calls' = [calls EXCEPT ![p] = Raise(c, "http_404")]
          /\ UNCHANGED permissions
     ELSE /\ permissions' = permissions \ {perm}
          /\ calls' = [calls EXCEPT ![p] =
               [c EXCEPT !.pc = "done", !.outcome = "deleted"]]
  /\ UNCHANGED <<system_state, agents, logs, pending_requests>>

\* The admin endpoints on session p.
admin(p) ==
  \/ \E agent_id \in AdminAgentIds, owner \in Owners, status \in StatusValues :
       create_agent(p, agent_id, owner, status)
  \/ \E agent_id \in AdminAgentIds, owner \in Owners \cup {"none"},
        status \in StatusValues \cup {"none"} :
       update_agent(p, agent_id, owner, status)
  \/ \E agent_id \in AdminAgentIds : delete_agent(p, agent_id)
  \/ \E perm \in AdminPermissions : create_permission(p, perm)
  \/ \E perm \in AdminPermissions : delete_permission(p, perm)

(* ------------------------------------------------------------------ *)
(* database.py                                                          *)
(* ------------------------------------------------------------------ *)

\* Mutant: start-up writes "disabled" whatever it finds.
init_db_resets(p) ==
  /\ Quiescent
  /\ system_state' = upsert(system_state, SYSTEM_KILL_SWITCH_KEY, "disabled")
  /\ calls' = [calls EXCEPT ![p] =
       [IdleCall EXCEPT !.op = "init_db", !.pc = "done",
                        !.outcome = "started",
                        !.kill_switch_read = KillSwitchRow]]
  /\ UNCHANGED <<agents, permissions, logs, pending_requests>>

\* init_db at application start (no handler is running): create_all, then
\* the kill-switch row is created with "disabled" if there is none.
init_db(p) ==
  /\ Quiescent
  /\ system_state' =
       IF KillSwitchRow = "absent"
       THEN upsert(system_state, SYSTEM_KILL_SWITCH_KEY, "disabled")
       ELSE system_state
  /\ calls' = [calls EXCEPT ![p] =
       [IdleCall EXCEPT !.op = "init_db", !.pc = "done",
                        !.outcome = "started",
                        !.kill_switch_read = KillSwitchRow]]
  /\ UNCHANGED <<agents, permissions, logs, pending_requests>>

(* ------------------------------------------------------------------ *)
(* Initial states and specifications                                    *)
(* ------------------------------------------------------------------ *)

\* The permission rows a store may start with.
PermissionRows ==
  {Permission(t[1], t[2], t[3], cond) : t \in Triples, cond \in Conditions}

\* The permission tables a store may start with: no row, a single row
\* (with a condition on the first triple only), or the two rows that match
\* the two requests.
PermissionTables ==
  {{}} \cup {{Permission(t[1], t[2], t[3], "none")} : t \in Triples}
       \cup {{Permission("a1", "read", "db", cond)} : cond \in Conditions}
       \cup {{Permission(t[1], t[2], t[3], "none") : t \in Requests}}

\* The agent tables a store may start with: agent a2 registered and
\* active, agent a1 unknown, active or disabled.
AgentTables ==
  LET a2 == [owner |-> "o2", status |-> "active"] IN
  {[a \in {"a2"} |-> a2]} \cup
  {[a \in AgentIds |-> IF a = "a2" THEN a2
                       ELSE [owner |-> "o1", status |-> st]] :
     st \in {"active", "disabled"}}

\* The SystemState tables a store may start with: no kill-switch row
\* (create_all only) or a row holding either value.
SystemStateTables ==
  UNION {[S -> {"enabled", "disabled"}] : S \in SUBSET {SYSTEM_KILL_SWITCH_KEY}}

Init ==
  /\ system_state \in SystemStateTables
  /\ agents \in AgentTables
  /\ permissions \in PermissionTables
  /\ logs = <<>>
  /\ pending_requests = <<>>
  /\ calls = [p \in Procs |-> IdleCall]

\* The steps of session p.
Step(p) ==
  \/ agent_request(p)
  \/ human_approve(p)
  \/ human_deny(p)
  \/ get_system_kill_switch(p)
  \/ handler_return(p)

\* One handler at a time, on session p1.
Next == Step("p1")

Spec == Init /\ [][Next]_vars

\* Two sessions whose handlers interleave step by step: authorize calls on
\* session p1, resolutions on both.
InitConc ==
  /\ Init
  /\ KillSwitchRow # "absent"
  /\ DOMAIN agents = AgentIds
  /\ permissions = {Permission("a1", "read", "db", "none")}

NextConc ==
  \/ agent_request("p1")
  \/ \E p \in Procs :
       \/ human_approve(p)
       \/ human_deny(p)
       \/ handler_return(p)

SpecConc == InitConc /\ [][NextConc]_vars

\* All operations, one handler at a time on session p1, on a store created
\* by create_all (no kill-switch row) holding agent a1 and its permission.
InitOps ==
  /\ system_state \in [{} -> {"enabled", "disabled"}]
  /\ agents \in {[a \in {"a1"} |-> [owner |-> "o1", status |-> "active"]]}
  /\ permissions = {Permission("a1", "read", "db", "none")}
  /\ logs = <<>>
  /\ pending_requests = <<>>
  /\ calls = [p \in Procs |-> IdleCall]

NextOps ==
  \/ agent_request("p1")
  \/ human_approve("p1")
  \/ human_deny("p1")
  \/ set_system_kill_switch("p1")
  \/ get_system_kill_switch("p1")
  \/ agent_kill("p1")
  \/ get_pending_approvals("p1")
  \/ admin("p1")
  \/ handler_return("p1")

SpecOps == InitOps /\ [][NextOps]_vars

\* Authorize calls on session p1 interleaved step by step with the
\* kill-switch endpoint (either session), the agent kill endpoint and the
\* permission endpoints (session p2).
InitToggle ==
  /\ system_state \in [{} -> {"enabled", "disabled"}]
                        \cup [{SYSTEM_KILL_SWITCH_KEY} -> {"disabled"}]
  /\ agents \in {[a \in {"a1"} |-> [owner |-> "o1", status |-> "active"]]}
  /\ permissions = {Permission("a1", "read", "db", "none")}
  /\ logs = <<>>
  /\ pending_requests = <<>>
  /\ calls = [p \in Procs |-> IdleCall]

NextToggle ==
  \/ agent_request("p1")
  \/ agent_kill("p2")
  \/ \E perm \in AdminPermissions : create_permission("p2", perm)
  \/ \E perm \in AdminPermissions : delete_permission("p2", perm)
  \/ \E p \in Procs :
       \/ set_system_kill_switch(p)
       \/ handler_return(p)

SpecToggle == InitToggle /\ [][NextToggle]_vars

\* The application is started and restarted on a fresh database, with the
\* kill-switch endpoints used in between.
InitStart ==
  /\ system_state \in [{} -> {"enabled", "disabled"}]
  /\ agents \in {[a \in {"a1"} |-> [owner |-> "o1", status |-> "active"]]}
  /\ permissions = {Permission("a1", "read", "db", "none")}
  /\ logs = <<>>
  /\ pending_requests = <<>>
  /\ calls = [p \in Procs |-> IdleCall]

NextStart ==
  \/ init_db("p1")
  \/ set_system_kill_switch("p1")
  \/ get_system_kill_switch("p1")
  \/ handler_return("p1")

SpecStart == InitStart /\ [][NextStart]_vars

(* ------------------------------------------------------------------ *)
(* Properties                                                           *)
(* ------------------------------------------------------------------ *)

\* An authorize call on session p has reached its response or its error.
AuthorizeDone(p) == calls[p].op = "request" /\ calls[p].pc = "done"

\* The call returned a Decision with these three values.
Decided(c, result, reason, action_required) ==
  /\ c.outcome = "decision"
  /\ c.result = result
  /\ c.reason = reason
  /\ c.action_required = action_required

\* Some stored Permission row equals the request on all three fields.
MatchingRow(c) ==
  \E row \in permissions :
     row.agent_id = c.agent_id /\ row.action = c.action
       /\ row.resource = c.resource

\* The <<rule_checked, rule_result>> pairs of a trace.
Rules(trace) ==
  [i \in 1..Len(trace) |-> <<trace[i].rule_checked, trace[i].rule_result>>]

\* The PendingRequest rows a call created are pending, with this reason.
CreatedPending(c, reason) ==
  \A i \in 1..Len(c.created) :
     /\ c.created[i] \in DOMAIN pending_requests
     /\ pending_requests[c.created[i]].status = "pending"
     /\ pending_requests[c.created[i]].reason = reason
     /\ pending_requests[c.created[i]].action_required = "human_intervention"

\* C1: every authorize call whose kill-switch read finds
\* "enabled" returns denied / system_kill_switch_enabled /
\* human_intervention and creates exactly one pending PendingRequest with
\* that reason.
C1_AsStated ==
  \A p \in Procs :
    (AuthorizeDone(p) /\ calls[p].kill_switch_read = "enabled") =>
       /\ Decided(calls[p], "denied", "system_kill_switch_enabled",
                  "human_intervention")
       /\ Len(calls[p].created) = 1
       /\ CreatedPending(calls[p], "system_kill_switch_enabled")

\* C2: an authorize call in which a session operation raised (at the
\* kill-switch, agent or permission read or at a Log / PendingRequest write)
\* goes through the except branch and returns denied / system_error /
\* human_intervention, whether or not the two writes of the except branch
\* succeed; it never returns approved and never ends in an error.
C2_FaultDenies ==
  \A p \in Procs :
    LET c == calls[p] IN
    (c.op = "request" /\ c.fault_at # "none") =>
       /\ c.pc \in {"except_log", "except_pending", "done"}
       /\ c.pc = "done" =>
            Decided(c, "denied", "system_error", "human_intervention")

\* C2 witness: all three checks passed, the approved Log write raised, and
\* both writes of the except branch failed as well.
C2_Witness ==
  \E p \in Procs :
     /\ AuthorizeDone(p)
     /\ calls[p].fault_at = "approved_log"
     /\ calls[p].logged = <<>> /\ calls[p].created = <<>>
     /\ calls[p].reason = "system_error"

\* C3: every authorize call that returns a Decision writes exactly one Log
\* row, for the request's agent, action and resource and with the result of
\* the Decision.
C3_ExactlyOneLog ==
  \A p \in Procs :
    LET c == calls[p] IN
    (AuthorizeDone(p) /\ c.outcome = "decision") =>
       c.logged = <<Log(c.agent_id, c.action, c.resource, c.result)>>

\* C4: with the kill switch not enabled, the agent active and a Permission
\* row matching the request, an authorize call in which nothing raised
\* returns approved / all_checks_passed with no action required and the
\* trace kill_switch passed, agent_status passed, permission_rule passed.
C4_AllChecksPassed ==
  \A p \in Procs :
    LET c == calls[p] IN
    (/\ AuthorizeDone(p) /\ c.fault_at = "none"
     /\ KillSwitchRow # "enabled"
     /\ c.agent_id \in DOMAIN agents
     /\ agents[c.agent_id].status = "active"
     /\ MatchingRow(c)) =>
       /\ Decided(c, "approved", "all_checks_passed", "none")
       /\ Rules(c.decision_trace) =
            << <<"kill_switch", "passed">>, <<"agent_status", "passed">>,
               <<"permission_rule", "passed">> >>

\* C4 witness: an approved request.
C4_Witness ==
  \E p \in Procs :
     /\ AuthorizeDone(p)
     /\ calls[p].result = "approved"
     /\ Len(calls[p].decision_trace) = 3

\* C5: for a disabled agent with the kill switch not enabled,
\* authorize returns denied / agent_disabled, writes one denied Log row and
\* creates no PendingRequest.
C5_AsStated ==
  \A p \in Procs :
    LET c == calls[p] IN
    (/\ AuthorizeDone(p)
     /\ c.kill_switch_read \in {"absent", "disabled"}
     /\ c.agent_read = "disabled") =>
       /\ Decided(c, "denied", "agent_disabled", "none")
       /\ c.logged = <<Log(c.agent_id, c.action, c.resource, "denied")>>
       /\ c.created = <<>>

\* C6: check_permission is true exactly when a stored row equals
\* the request on agent_id, action and resource, whatever its condition;
\* with the agent active, the kill switch not enabled and no such row,
\* authorize returns denied / permission_rule_failed.
C6_AsStated ==
  \A p \in Procs :
    LET c == calls[p] IN
    /\ (c.op = "request" /\ c.permission_read # "none") =>
          (c.permission_read = "yes" <=> MatchingRow(c))
    /\ (/\ AuthorizeDone(p)
        /\ c.kill_switch_read \in {"absent", "disabled"}
        /\ c.agent_read = "active"
        /\ c.permission_read = "no") =>
          Decided(c, "denied", "permission_rule_failed", "none")

\* What an authorize call that passed the kill-switch check returns and
\* writes, by what its later reads found and whether an operation raised.
KillSwitchOffOutcome(c) ==
  IF c.fault_at # "none"
  THEN /\ Decided(c, "denied", "system_error", "human_intervention")
       /\ \A i \in 1..Len(c.logged) : c.logged[i].result = "denied"
       /\ Len(c.logged) <= 1 /\ Len(c.created) <= 1
  ELSE IF c.agent_read = "absent"
  THEN c.outcome = "http_404" /\ c.logged = <<>> /\ c.created = <<>>
  ELSE IF c.agent_read = "disabled"
  THEN /\ Decided(c, "denied", "agent_disabled", "none")
       /\ c.logged = <<Log(c.agent_id, c.action, c.resource, "denied")>>
       /\ c.created = <<>>
  ELSE IF c.permission_read = "yes"
  THEN /\ Decided(c, "approved", "all_checks_passed", "none")
       /\ c.logged = <<Log(c.agent_id, c.action, c.resource, "approved")>>
       /\ c.created = <<>>
  ELSE /\ Decided(c, "denied", "permission_rule_failed", "none")
       /\ c.logged = <<Log(c.agent_id, c.action, c.resource, "denied")>>
       /\ c.created = <<>>

\* C7: a missing kill-switch row behaves as a row holding "disabled":
\* in both cases authorize records kill_switch passed, skips the kill-switch
\* branch and returns and writes what the agent and permission checks give,
\* and the kill-switch query reports "disabled".
C7_AbsentIsDisabled ==
  \A p \in Procs :
    LET c == calls[p] IN
    /\ (c.op = "get_kill_switch" /\ c.kill_switch_read \in {"absent", "disabled"})
          => c.result = "disabled"
    /\ (c.op = "request" /\ c.kill_switch_read \in {"absent", "disabled"}) =>
          /\ c.kill_switch_read = KillSwitchRow
          /\ c.decision_trace[1] =
               TraceEntry("kill_switch", "passed", <<"kill switch off">>)
          /\ c.pc \notin {"kill_switch_log", "kill_switch_pending"}
          /\ c.pc = "done" => KillSwitchOffOutcome(c)

\* C7 witness: a request approved in a store without a kill-switch row.
C7_Witness ==
  \E p \in Procs :
     /\ AuthorizeDone(p)
     /\ SYSTEM_KILL_SWITCH_KEY \notin DOMAIN system_state
     /\ calls[p].kill_switch_read = "absent"
     /\ calls[p].result = "approved"

\* C8: with the kill switch not enabled, an authorize call for an agent id
\* that is not stored ends in HTTP 404 and writes no Log row and no
\* PendingRequest.
C8_UnknownAgent404 ==
  \A p \in Procs :
    LET c == calls[p] IN
    c.op = "request" =>
      /\ c.agent_read = "absent" =>
           /\ c.agent_id \notin DOMAIN agents
           /\ c.kill_switch_read \in {"absent", "disabled"}
           /\ c.pc = "done" /\ c.outcome = "http_404"
           /\ c.logged = <<>> /\ c.created = <<>>
      /\ (/\ c.pc = "done" /\ c.fault_at = "none"
          /\ KillSwitchRow # "enabled"
          /\ c.agent_id \notin DOMAIN agents) =>
           c.agent_read = "absent"

\* C8 witness: a request for an unknown agent ended in 404 with both tables
\* empty.
C8_Witness ==
  \E p \in Procs :
     /\ AuthorizeDone(p)
     /\ calls[p].outcome = "http_404"
     /\ logs = <<>> /\ pending_requests = <<>>

\* C9: an approve or deny whose read finds the request id absent or not
\* pending (also after an earlier resolution) returns denied / system_error,
\* never approved, and leaves PendingRequests and Logs unchanged.
C9_NotPendingRefused ==
  [][\A p \in Procs :
       (/\ calls[p].op \in {"approve", "deny"}
        /\ calls[p].pc = "get"
        /\ calls'[p] # calls[p]
        /\ calls'[p].outcome # "fault"
        /\ \/ calls[p].request_id \notin DOMAIN pending_requests
           \/ pending_requests[calls[p].request_id].status # "pending") =>
          /\ calls'[p].pc = "done"
          /\ Decided(calls'[p], "denied", "system_error", "none")
          /\ calls'[p].logged = <<>>
          /\ logs' = logs
          /\ pending_requests' = pending_requests]_vars

\* C9 witness: an approve of a request that was resolved before was refused.
C9_Witness ==
  \E p \in Procs :
     /\ calls[p].op = "approve" /\ calls[p].pc = "done"
     /\ calls[p].pending_read = "resolved"
     /\ calls[p].reason = "system_error"
     /\ Len(logs) = 2

\* C10: of two concurrent approve / deny calls on the same pending request
\* id exactly one performs the transition and returns human_override, the
\* other returns denied / system_error, and exactly one Log row is written.
C10_OneResolutionWins ==
  \A p, q \in Procs :
    (/\ p # q
     /\ calls[p].op \in {"approve", "deny"} /\ calls[p].pc = "done"
     /\ calls[q].op \in {"approve", "deny"} /\ calls[q].pc = "done"
     /\ calls[p].request_id = calls[q].request_id
     /\ calls[p].pending_read = "pending" /\ calls[q].pending_read = "pending"
     /\ calls[p].outcome = "decision" /\ calls[q].outcome = "decision") =>
       /\ \/ /\ calls[p].reason = "human_override"
             /\ Decided(calls[q], "denied", "system_error", "none")
          \/ /\ calls[q].reason = "human_override"
             /\ Decided(calls[p], "denied", "system_error", "none")
       /\ Len(calls[p].logged) + Len(calls[q].logged) = 1

\* The result an approve / deny call logs and returns.
HumanResult(op) == IF op = "approve" THEN "approved" ELSE "denied"

\* C11: a successful approve (deny) of a pending request sets its status to
\* resolved, writes exactly one Log row with the request's agent, action and
\* resource and result approved (denied), and returns that result with
\* reason human_override and no action required; the status change and the
\* Log row are committed in one step, or neither is.
C11_ResolveCommitsTogether ==
  [][/\ \A p \in Procs :
          LET c == calls[p]
              d == calls'[p]
          IN (c.op \in {"approve", "deny"} /\ c.pc = "commit" /\ d # c) =>
               LET row == pending_requests[c.request_id]
                   entry == Log(row.agent_id, row.action, row.resource,
                                HumanResult(c.op))
               IN \/ /\ d.pc = "done" /\ d.outcome = "fault"
                     /\ logs' = logs
                     /\ pending_requests' = pending_requests
                  \/ /\ d.pc = "done"
                     /\ Decided(d, HumanResult(c.op), "human_override", "none")
                     /\ pending_requests'[c.request_id].status = "resolved"
                     /\ logs' = Append(logs, entry)
                     /\ d.logged = <<entry>>
     /\ \A id \in DOMAIN pending_requests :
          pending_requests'[id] # pending_requests[id] =>
            /\ pending_requests[id].status = "pending"
            /\ pending_requests'[id] =
                 [pending_requests[id] EXCEPT !.status = "resolved"]
            /\ Len(logs') = Len(logs) + 1
            /\ logs'[Len(logs')].agent_id = pending_requests[id].agent_id
            /\ logs'[Len(logs')].action = pending_requests[id].action
            /\ logs'[Len(logs')].resource = pending_requests[id].resource
            /\ logs'[Len(logs')].result \in {"approved", "denied"}]_vars

\* C11 witness: a deny resolved a pending request and its denied Log row is
\* the last row of the log.
C11_Witness ==
  \E p \in Procs :
     /\ calls[p].op = "deny" /\ calls[p].pc = "done"
     /\ calls[p].reason = "human_override" /\ calls[p].result = "denied"
     /\ pending_requests[calls[p].request_id].status = "resolved"
     /\ logs[Len(logs)] = calls[p].logged[1]

\* C12: a PendingRequest is created only by an authorize call, in the step
\* in which the call returns reason system_kill_switch_enabled or
\* system_error; calls returning agent_disabled, permission_rule_failed or
\* all_checks_passed and calls ending in 404 have created none, and no other
\* operation adds a row to the table.
C12_PendingOnlyOnEscalation ==
  [][/\ Len(pending_requests') # Len(pending_requests) =>
          /\ Len(pending_requests') = Len(pending_requests) + 1
          /\ \E p \in Procs :
               /\ calls[p].op = "request" /\ calls[p].pc # "done"
               /\ calls'[p].pc = "done" /\ calls'[p].outcome = "decision"
               /\ calls'[p].reason \in
                    {"system_kill_switch_enabled", "system_error"}
               /\ calls'[p].created = <<Len(pending_requests')>>
               /\ pending_requests'[Len(pending_requests')].reason =
                    calls'[p].reason
               /\ pending_requests'[Len(pending_requests')].status = "pending"
     /\ \A p \in Procs :
          (/\ calls'[p].op = "request" /\ calls'[p].pc = "done"
           /\ \/ calls'[p].outcome = "http_404"
              \/ calls'[p].reason \in {"agent_disabled",
                   "permission_rule_failed", "all_checks_passed"}) =>
             calls'[p].created = <<>>]_vars

\* C12 witness: a call that ended in system_error created the only
\* PendingRequest, after the kill switch had been set through its endpoint.
C12_Witness ==
  \E p \in Procs :
     /\ calls[p].op = "request" /\ calls[p].pc = "done"
     /\ calls[p].reason = "system_error"
     /\ calls[p].created = <<1>>
     /\ pending_requests[1].reason = "system_error"
     /\ Len(logs) = 2 /\ logs[1].action = "system_kill_switch"

\* C13: a failure of the audit Log write does not change the Decision
\* already computed: when only the write of the approved row fails the call
\* still returns approved, and a failed Log write on a policy-denial path
\* still returns that denial with its reason.
C13_LogFailureKeepsDecision ==
  \A p \in Procs :
    LET c == calls[p] IN
    (AuthorizeDone(p) /\ c.outcome = "decision") =>
       /\ c.fault_at = "approved_log" =>
            Decided(c, "approved", "all_checks_passed", "none")
       /\ c.fault_at = "disabled_log" =>
            Decided(c, "denied", "agent_disabled", "none")
       /\ c.fault_at = "denied_log" =>
            Decided(c, "denied", "permission_rule_failed", "none")

\* C14: for a decision that escalates (kill-switch or system-error path)
\* the denied Log row and the PendingRequest are persisted together: no
\* committed state, also between the two writes, holds the Log row of the
\* decision without its PendingRequest or the PendingRequest without its
\* Log row.
C14_LogAndPendingTogether ==
  \A p \in Procs :
    LET c == calls[p] IN
    (c.op = "request"
       /\ (c.kill_switch_read = "enabled" \/ c.fault_at # "none")) =>
       (c.logged # <<>> <=> c.created # <<>>)

\* C15: every Log row has result approved or denied, whatever operations
\* ran (authorize, approve, deny, agent kill / enable, kill-switch set).
C15_LogResultApprovedOrDenied ==
  \A i \in 1..Len(logs) : logs[i].result \in {"approved", "denied"}

\* C16: the audit log is append-only: no step of any operation (authorize,
\* approve, deny, agent kill, kill-switch set, agent create / update /
\* delete, permission create / delete) changes or removes a row written
\* before; deleting an agent leaves its Log rows in place.
C16_LogAppendOnly ==
  [][/\ Len(logs') >= Len(logs)
     /\ SubSeq(logs', 1, Len(logs)) = logs]_vars

\* C16 witness: an agent was deleted and a Log row of it is still stored.
C16_Witness ==
  \E p \in Procs :
     /\ calls[p].op = "delete_agent" /\ calls[p].outcome = "deleted"
     /\ calls[p].agent_id \notin DOMAIN agents
     /\ \E i \in 1..Len(logs) : logs[i].agent_id = calls[p].agent_id

\* C17: the kill-switch endpoint is an upsert on the single row keyed
\* system_kill_switch: the table holds at most that row, with value enabled
\* or disabled, the row is never deleted, a completed call leaves its own
\* value or the value of a call that committed later, and calls that run
\* while the row is absent, also two at the same time, complete without
\* error.
C17_KillSwitchUpsert ==
  /\ DOMAIN system_state \subseteq {SYSTEM_KILL_SWITCH_KEY}
  /\ \A k \in DOMAIN system_state : system_state[k] \in {"enabled", "disabled"}
  /\ \A p \in Procs :
       calls[p].op = "set_kill_switch" =>
         /\ calls[p].pc \in {"log", "done"} /\ calls[p].fault_at \notin {"get", "commit"}
              => KillSwitchRow # "absent"
         /\ calls[p].fault_at # "primary_key"

\* What an authorize call in which nothing raised returns, by its own three
\* reads.
ReadsOutcome(c) ==
  IF c.kill_switch_read = "enabled"
  THEN /\ Decided(c, "denied", "system_kill_switch_enabled",
                  "human_intervention")
       /\ c.agent_read = "none" /\ c.permission_read = "none"
  ELSE KillSwitchOffOutcome(c)

\* C18: with authorize calls interleaved with kill-switch sets, agent
\* kill / enable and permission changes, each of the three reads of a call
\* takes the value stored at its own step and is kept from then on, the
\* Decision of a call in which nothing raised is given by these three
\* values alone (a change committed after a read does not alter it), and a
\* call in flight always has a step it can take, whatever the other
\* session is doing.
C18_DecisionByOwnReads ==
  [][\A p \in Procs :
       LET c == calls[p]
           d == calls'[p]
       IN
       /\ (c.op = "request" /\ c.pc \notin {"idle", "done"}) =>
             ENABLED agent_request(p)
       /\ (c.op = "request" /\ d.op = "request") =>
             /\ c.kill_switch_read # "none" =>
                  d.kill_switch_read = c.kill_switch_read
             /\ c.agent_read # "none" => d.agent_read = c.agent_read
             /\ c.permission_read # "none" =>
                  d.permission_read = c.permission_read
       /\ (c.op = "request" /\ d # c /\ d.fault_at = "none") =>
             /\ c.pc = "kill_switch" => d.kill_switch_read = KillSwitchRow
             /\ c.pc = "agent" =>
                  d.agent_read = IF c.agent_id \in DOMAIN agents
                                 THEN agents[c.agent_id].status ELSE "absent"
             /\ c.pc = "permission" =>
                  d.permission_read = IF MatchingRow(c) THEN "yes" ELSE "no"
       /\ (d.op = "request" /\ d.pc = "done" /\ d.fault_at = "none") =>
             ReadsOutcome(d)]_vars

\* C18 witness: a call was approved although the kill switch was enabled
\* and the agent disabled after the call had read them.
C18_Witness ==
  /\ AuthorizeDone("p1")
  /\ calls["p1"].result = "approved"
  /\ KillSwitchRow = "enabled"
  /\ calls["p1"].agent_id \in DOMAIN agents
  /\ agents[calls["p1"].agent_id].status = "disabled"

\* C19: every stored Agent has status active or disabled, whatever agent
\* create, update and kill / enable operations ran, and a create or update
\* carrying another status value is rejected.
C19_AgentStatusValid ==
  /\ \A a \in DOMAIN agents : agents[a].status \in {"active", "disabled"}
  /\ \A p \in Procs :
       (/\ calls[p].op \in {"create_agent", "update_agent"}
        /\ calls[p].pc = "done"
        /\ calls[p].notes \notin {"active", "disabled", "none"}) =>
          calls[p].outcome \in {"http_400", "http_404", "http_422"}

\* C20: the pending-approvals listing returns exactly the PendingRequest
\* rows whose status is pending, each once: a request created by an
\* escalating authorize call is listed until it is resolved, and a resolved
\* request stays resolved, so no later listing shows it.
C20_ListingIsPendingRows ==
  [][/\ \A p \in Procs :
          LET d == calls'[p] IN
          (d.op = "pending_approvals" /\ d.pc = "done") =>
             /\ \A id \in DOMAIN pending_requests' :
                  (\E i \in 1..Len(d.listing) : d.listing[i] = id)
                     <=> pending_requests'[id].status = "pending"
             /\ \A i, j \in 1..Len(d.listing) :
                  d.listing[i] = d.listing[j] => i = j
             /\ \A i \in 1..Len(d.listing) :
                  d.listing[i] \in DOMAIN pending_requests'
     /\ \A id \in DOMAIN pending_requests :
          /\ id \in DOMAIN pending_requests'
          /\ pending_requests[id].status = "resolved" =>
               pending_requests'[id].status = "resolved"]_vars

\* C20 witness: a listing taken after the only request was resolved is
\* empty.
C20_Witness ==
  \E p \in Procs :
     /\ calls[p].op = "pending_approvals" /\ calls[p].pc = "done"
     /\ calls[p].listing = <<>>
     /\ Len(pending_requests) = 1
     /\ pending_requests[1].status = "resolved"

\* The trace a resolution returns when the human_decision entry carries
\* these notes: the stored trace of the request followed by that entry.
ResolvedTrace(c, notes) ==
  Append(json_loads(pending_requests[c.request_id].decision_trace),
         TraceEntry("human_decision",
                    IF c.op = "approve" THEN "passed" ELSE "failed", notes))

\* A successful approve / deny call.
Resolved(c) ==
  /\ c.op \in {"approve", "deny"} /\ c.pc = "done"
  /\ c.outcome = "decision" /\ c.reason = "human_override"

\* C21: the trace returned by a successful approve / deny is the trace
\* stored in the PendingRequest followed by one human_decision entry, passed
\* with notes 'approved by human <id>' for approve, failed with notes
\* 'denied by human <id>' for deny, with ' (<notes>)' appended whenever
\* notes were supplied.
C21_NotesWheneverSupplied ==
  \A p \in Procs :
    LET c == calls[p] IN
    Resolved(c) =>
      c.decision_trace =
        ResolvedTrace(c,
          IF c.op = "approve" THEN <<"approved by human ", c.human_id>>
          ELSE IF c.notes # "none"
          THEN <<"denied by human ", c.human_id, " (", c.notes, ")">>
          ELSE <<"denied by human ", c.human_id>>)

\* C21 amended: as C21, with ' (<notes>)' appended when the notes supplied
\* to deny are not empty; a deny with empty notes returns 'denied by human
\* <id>' like a deny without notes.
C21_ResolvedTrace ==
  \A p \in Procs :
    LET c == calls[p] IN
    Resolved(c) =>
      c.decision_trace =
        ResolvedTrace(c,
          IF c.op = "approve" THEN <<"approved by human ", c.human_id>>
          ELSE IF c.notes # "none" /\ c.notes # ""
          THEN <<"denied by human ", c.human_id, " (", c.notes, ")">>
          ELSE <<"denied by human ", c.human_id>>)

\* C21 witness: a deny with notes returned the stored trace and the human
\* entry after it.
C21_Witness ==
  \E p \in Procs :
     /\ Resolved(calls[p]) /\ calls[p].op = "deny"
     /\ calls[p].notes = "not authorized"
     /\ Len(calls[p].decision_trace) >= 2
     /\ calls[p].decision_trace[Len(calls[p].decision_trace)].notes =
          <<"denied by human ", calls[p].human_id, " (", "not authorized", ")">>

\* C22: when one of the three checks of an authorize call raises and the
\* two writes of the except branch succeed, the call writes one denied Log
\* row and creates exactly one PendingRequest with reason system_error,
\* status pending, action_required human_intervention and the call's trace
\* stored, whose last entry is system_error / failed.
C22_FaultEscalates ==
  \A p \in Procs :
    LET c == calls[p] IN
    (/\ AuthorizeDone(p)
     /\ c.fault_at \in {"kill_switch", "agent", "permission"}
     /\ c.swallowed = {}) =>
       /\ c.logged = <<Log(c.agent_id, c.action, c.resource, "denied")>>
       /\ Len(c.created) = 1
       /\ c.created[1] \in DOMAIN pending_requests
       /\ LET row == pending_requests[c.created[1]]
              stored == json_loads(row.decision_trace)
          IN /\ row.agent_id = c.agent_id /\ row.action = c.action
             /\ row.resource = c.resource
             /\ row.reason = "system_error"
             /\ row.action_required = "human_intervention"
             /\ row.status = "pending"
             /\ stored = c.decision_trace
             /\ stored # <<>>
             /\ stored[Len(stored)].rule_checked = "system_error"
             /\ stored[Len(stored)].rule_result = "failed"

\* C22 witness: the permission read raised after two passed checks and the
\* escalation was recorded.
C22_Witness ==
  \E p \in Procs :
     /\ AuthorizeDone(p)
     /\ calls[p].fault_at = "permission" /\ calls[p].swallowed = {}
     /\ calls[p].created = <<1>>
     /\ pending_requests[1].status = "pending"
     /\ Len(pending_requests[1].decision_trace) = 3

\* C23: init_db creates the kill-switch row with value disabled when it is
\* absent and leaves an existing row untouched: however often it runs, an
\* enabled kill switch stays enabled and there is never a second row.
C23_InitDbKeepsKillSwitch ==
  [][\A p \in Procs :
       (calls[p].pc = "idle" /\ calls'[p].op = "init_db") =>
          /\ DOMAIN system_state' = {SYSTEM_KILL_SWITCH_KEY}
          /\ system_state'[SYSTEM_KILL_SWITCH_KEY] =
               IF SYSTEM_KILL_SWITCH_KEY \in DOMAIN system_state
               THEN system_state[SYSTEM_KILL_SWITCH_KEY] ELSE "disabled"]_vars

\* C23 witness: a restart found the kill switch enabled and left it enabled.
C23_Witness ==
  \E p \in Procs :
     /\ calls[p].op = "init_db" /\ calls[p].pc = "done"
     /\ calls[p].kill_switch_read = "enabled"
     /\ KillSwitchRow = "enabled"

\* The order in which agent_request evaluates its checks.
CheckOrder == <<"kill_switch", "agent_status", "permission_rule">>

\* The trace is a prefix of CheckOrder, optionally followed by one
\* system_error entry.
OrderedTrace(trace) ==
  \E k \in 0..3 :
     /\ Len(trace) \in {k, k + 1}
     /\ \A i \in 1..k : i <= Len(trace) /\ trace[i].rule_checked = CheckOrder[i]
     /\ Len(trace) = k + 1 => trace[k + 1].rule_checked = "system_error"

\* C24: in every Decision returned by authorize the trace is a prefix of
\* kill_switch, agent_status, permission_rule, optionally followed by one
\* system_error entry; every entry before the last is passed; the result is
\* approved exactly when the trace is the three checks all passed; a denied
\* trace ends with its only failed entry.
C24_TraceShape ==
  \A p \in Procs :
    LET c == calls[p]
        t == c.decision_trace
    IN (AuthorizeDone(p) /\ c.outcome = "decision") =>
         /\ t # <<>>
         /\ OrderedTrace(t)
         /\ \A i \in 1..(Len(t) - 1) : t[i].rule_result = "passed"
         /\ c.result = "approved" <=>
              (/\ Len(t) = 3
               /\ \A i \in 1..3 : Rules(t)[i] = <<CheckOrder[i], "passed">>)
         /\ c.result = "denied" => t[Len(t)].rule_result = "failed"

\* The steps of agent_kill on session p: a change of the Agent table is the
\* status of the addressed agent under a matching owner; a call that ends
\* successfully has set the status and written one Log row with action
\* "kill"; a call that ends with 403 or 404 has written nothing.
KillChangesByOwner(p) ==
  LET c == calls[p]
      d == calls'[p]
      target == IF c.enabled THEN "active" ELSE "disabled"
  IN c.op = "kill" =>
       /\ agents' # agents =>
            /\ c.agent_id \in DOMAIN agents
            /\ agents[c.agent_id].owner = c.owner
            /\ agents' = [agents EXCEPT ![c.agent_id].status = target]
       /\ (c.pc # "done" /\ d.pc = "done" /\ d.outcome = "decision") =>
            /\ agents'[c.agent_id].status = target
            /\ d.logged = <<Log(c.agent_id, "kill", "agent",
                                EnabledText(c.enabled))>>
            /\ logs' = logs \o d.logged
       /\ (c.pc # "done" /\ d.pc = "done"
             /\ d.outcome \in {"http_403", "http_404"}) =>
            /\ d.outcome = "http_404" <=> c.agent_id \notin DOMAIN agents
            /\ UNCHANGED <<agents, logs>>

\* An authorize call that found the kill switch off and the agent disabled
\* returned denied / agent_disabled.
DisabledAgentDenied ==
  \A p \in Procs :
    LET c == calls[p] IN
    (AuthorizeDone(p) /\ c.agent_read = "disabled") =>
       Decided(c, "denied", "agent_disabled", "none")

\* C25: agent_kill changes an agent's status only under the stored owner,
\* then to active or disabled with one Log row of action kill; 403 on an
\* owner mismatch and 404 on an unknown agent leave status and Log
\* unchanged; while the agent is disabled every authorize for it with the
\* kill switch off returns denied / agent_disabled.
C25_KillByOwner ==
  [][(\A p \in Procs : KillChangesByOwner(p)) /\ DisabledAgentDenied']_vars

\* C26: authorize returns approved only when the status it read at its
\* agent-status step was exactly active; under any other stored status,
\* also one written by the admin update, the call is denied or fails.
C26_ApprovedOnlyIfActive ==
  \A p \in Procs :
    LET c == calls[p] IN
    (AuthorizeDone(p) /\ c.outcome = "decision" /\ c.result = "approved") =>
       c.agent_read = "active"

\* An authorize call that read the kill switch while it was enabled
\* returned denied / system_kill_switch_enabled, and an approved call read
\* it while it was not enabled.
EnabledWindowDenied ==
  \A p \in Procs :
    LET c == calls[p] IN
    (AuthorizeDone(p) /\ c.outcome = "decision") =>
       /\ c.kill_switch_read = "enabled" =>
            c.result = "denied" /\ c.reason = "system_kill_switch_enabled"
       /\ c.result = "approved" => c.kill_switch_read \in {"disabled", "absent"}

\* C27: between the commit of setKillSwitch(enabled = true) and the commit
\* of a later disable the stored switch is enabled; an authorize call whose
\* kill-switch step runs then goes no further than that step and returns
\* denied / system_kill_switch_enabled; only a call that read the switch
\* outside that window can return approved.
C27_EnabledWindow ==
  [][/\ \A p \in Procs :
          (/\ calls[p].op = "request" /\ calls[p].pc = "kill_switch"
           /\ calls'[p].pc # "kill_switch"
           /\ KillSwitchRow = "enabled") =>
             calls'[p].pc \in {"kill_switch_log", "except_log"}
     /\ EnabledWindowDenied']_vars

\* C28: the outcome of approve / deny is given by the existence and status
\* of the PendingRequest alone: a pending request is resolved also while the
\* kill switch is enabled and the agent is disabled or deleted or has no
\* permission, and no step of the call changes SystemState, Agent or
\* Permission.
C28_ResolveByRequestAlone ==
  [][\A p \in Procs :
       LET c == calls[p]
           d == calls'[p]
       IN c.op \in {"approve", "deny"} =>
            /\ UNCHANGED <<system_state, agents, permissions>>
            /\ (c.pc = "get" /\ d.pc # "get" /\ d.outcome # "fault") =>
                 d.pending_read =
                   IF c.request_id \in DOMAIN pending_requests
                   THEN pending_requests[c.request_id].status ELSE "absent"
            /\ (c.pc # "done" /\ d.pc = "done" /\ d.outcome # "fault") =>
                 IF d.pending_read = "pending"
                 THEN Decided(d, HumanResult(c.op), "human_override", "none")
                 ELSE Decided(d, "denied", "system_error", "none")]_vars

\* C28 witness: a request was approved while the kill switch was enabled,
\* its agent deleted and no permission stored.
C28_Witness ==
  \E p \in Procs :
     /\ Resolved(calls[p]) /\ calls[p].op = "approve"
     /\ KillSwitchRow = "enabled"
     /\ calls[p].agent_id \notin DOMAIN agents
     /\ permissions = {}

\* C29: a successful approve / deny changes only the status field of the
\* PendingRequest: the stored decision_trace, reason, agent, action, resource
\* and action_required stay as written at escalation, and the
\* human_decision entry is in the returned Decision only.
C29_ResolveChangesStatusOnly ==
  [][\A p \in Procs :
       LET c == calls[p]
           d == calls'[p]
       IN (/\ c.op \in {"approve", "deny"} /\ c.pc = "commit"
           /\ d.pc = "done" /\ d.outcome = "decision") =>
            LET stored == json_loads(pending_requests'[c.request_id].decision_trace)
            IN /\ pending_requests' =
                    [pending_requests EXCEPT ![c.request_id].status = "resolved"]
               /\ \A i \in 1..Len(stored) :
                     stored[i].rule_checked # "human_decision"
               /\ Len(d.decision_trace) = Len(stored) + 1
               /\ SubSeq(d.decision_trace, 1, Len(stored)) = stored
               /\ d.decision_trace[Len(stored) + 1].rule_checked =
                    "human_decision"]_vars

\* C29 witness: a denied request is resolved and its row still holds the
\* two-entry trace of the escalation, one entry shorter than the returned one.
C29_Witness ==
  \E p \in Procs :
     /\ Resolved(calls[p]) /\ calls[p].op = "deny"
     /\ pending_requests[calls[p].request_id].status = "resolved"
     /\ pending_requests[calls[p].request_id].reason = "system_error"
     /\ Len(pending_requests[calls[p].request_id].decision_trace) = 2
     /\ Len(calls[p].decision_trace) = 3

\* An authorize call that found the kill switch off: an absent agent gives
\* 404, an active agent without a matching Permission row gives denied /
\* permission_rule_failed.
NoAgentOrNoPermission ==
  \A p \in Procs :
    LET c == calls[p] IN
    (AuthorizeDone(p) /\ c.kill_switch_read \in {"absent", "disabled"}) =>
       /\ c.agent_read = "absent" => c.outcome = "http_404"
       /\ (c.agent_read = "active" /\ c.permission_read = "no") =>
            Decided(c, "denied", "permission_rule_failed", "none")

\* C30: delete_agent removes the agent and all Permission rows of that
\* agent; afterwards authorize for that id with the kill switch off gives
\* not-found; creating the agent again brings no Permission row back, so
\* authorize for it returns denied / permission_rule_failed until a new
\* permission is created.
C30_DeleteRemovesPermissions ==
  [][/\ \A p \in Procs :
          LET d == calls'[p] IN
          (calls[p].pc = "idle" /\ d.pc = "done") =>
            /\ (d.op = "delete_agent" /\ d.outcome = "deleted") =>
                 /\ d.agent_id \in DOMAIN agents
                 /\ d.agent_id \notin DOMAIN agents'
                 /\ \A perm \in permissions' : perm.agent_id # d.agent_id
                 /\ \A perm \in permissions :
                      perm.agent_id # d.agent_id => perm \in permissions'
            /\ d.op = "create_agent" => permissions' = permissions
     /\ NoAgentOrNoPermission']_vars


====
